---- MODULE Spec2Model ----
(***************************************************************************)
(* Safe Sight traffic-risk pipeline: geometry kernel, frame risk           *)
(* evaluator, video aggregator, violation summarizer (utils/riskLogic.ts), *)
(* the analysis orchestrator analyzeVideo (utils/analysis.ts) and its      *)
(* caller handleAnalyze (App.tsx).                                         *)
(*                                                                         *)
(* Numbers.  Box coordinates, counts and scores are integers.  Quotients   *)
(* the code forms in floating point are kept as exact fractions            *)
(* <<numerator, denominator>> and compared by cross-multiplication;        *)
(* Math.round of a non-negative fraction p/q is (2p + q) \div 2q, i.e.     *)
(* round half up.  Values rounded to one decimal place are kept in tenths. *)
(***************************************************************************)
EXTENDS Integers, Sequences, FiniteSets, TLC

VARIABLES
    \* harness of computeFrameRisk: its three arguments and its return value
    detections, frameWidth, frameHeight, frameAnalysis,
    \* harness of aggregateVideoRisk: argument, return value, previous return value
    scores, agg, prev,
    \* App.tsx component state (useState, lines 11-18)
    locationName, selectedLocation, videoFile, isAnalyzing, progress,
    analyses, currentAnalysis, errorMessage,
    \* one invocation of analyzeVideo: who called it, the values handleAnalyze
    \* closed over, its parameters, its locals, and what an observer saw
    pc, caller, closure, file, maxFrames, frameSkip, frameIndex,
    frameAnalyses, frameScores, events, result, cancelRequested,
    \* the frame counts generateViolations was called with in that invocation
    summarized,
    \* invocations of handleAnalyze between their await and their finally block
    inFlight,
    \* Sidebar.tsx component state (useState, lines 30-33), the searchLocations
    \* requests not yet answered, and the values the location functions of
    \* utils/geocode.ts resolved with last
    searchResults, showResults, isLocating, pendingSearches, liveLocation, geocoded,
    searched,
    \* harness of generateViolations: its two arguments and its return value
    sampled, aggregateScore, summary,
    \* harness of iou: two boxes, and iou(a, b), iou(b, a), iou(a, a)
    rectA, rectB, ratios

frameVars == <<detections, frameWidth, frameHeight, frameAnalysis>>
aggVars   == <<scores, agg, prev>>
appVars   == <<locationName, selectedLocation, videoFile, isAnalyzing, progress,
               analyses, currentAnalysis, errorMessage, inFlight>>
runVars   == <<pc, caller, closure, file, maxFrames, frameSkip, frameIndex,
               frameAnalyses, frameScores, events, result, cancelRequested,
               summarized>>
violVars  == <<sampled, aggregateScore, summary>>
iouVars   == <<rectA, rectB, ratios>>
sideVars  == <<searchResults, showResults, isLocating, pendingSearches,
               liveLocation, geocoded, searched>>
kernelVars == <<violVars, iouVars, sideVars>>
vars      == <<frameVars, aggVars, appVars, runVars, kernelVars>>

\* null for string-valued and for record-valued variables
None == "none"
Nil == [nil |-> TRUE]

----------------------------------------------------------------------------
(* Bounds *)

MaxDets == 4        \* longest detection list given to computeFrameRisk
MaxScores == 3      \* longest score list given to aggregateVideoRisk
MaxRerun == 2       \* longest score list when aggregation is run repeatedly
MaxCap == 2         \* largest frame cap of a direct call of analyzeVideo
MaxStride == 2      \* largest frame stride of a direct call of analyzeVideo
MaxVaried == 2      \* frames of a run for which the detection source varies its output
MaxSampled == 4     \* longest frame-analysis list given to generateViolations
MaxCoord == 2       \* largest box coordinate given to iou
MaxPending == 2     \* most searchLocations requests in flight at a time

----------------------------------------------------------------------------
(* types/index.ts *)

VEHICLE_CLASSES == {"car", "motorcycle", "bus", "truck", "bicycle"}

Det(cls, box) == [className |-> cls, bbox |-> box]

----------------------------------------------------------------------------
(* Arithmetic helpers *)

Max2(a, b) == IF a >= b THEN a ELSE b
Min2(a, b) == IF a <= b THEN a ELSE b

\* Math.round(p / q) for p >= 0, q > 0
RoundDiv(p, q) == (2 * p + q) \div (2 * q)

RECURSIVE SumSeq(_)
SumSeq(s) == IF s = <<>> THEN 0 ELSE Head(s) + SumSeq(Tail(s))

MaxSeqAlt(s) == s[Len(s)]
RECURSIVE MaxSeq(_)
MaxSeq(s) == IF Len(s) = 1 THEN s[1] ELSE Max2(Head(s), MaxSeq(Tail(s)))

MinSeqAlt(s) == s[1]
RECURSIVE MinSeq(_)
MinSeq(s) == IF Len(s) = 1 THEN s[1] ELSE Min2(Head(s), MinSeq(Tail(s)))

RECURSIVE SeqsUpTo(_, _)
SeqsUpTo(S, n) ==
    IF n = 0 THEN {<<>>}
    ELSE LET shorter == SeqsUpTo(S, n - 1)
         IN  shorter \cup {Append(s, x) : s \in shorter, x \in S}

----------------------------------------------------------------------------
(* utils/riskLogic.ts: geometry kernel *)

\* iou as the fraction <<interArea, union>>; <<0, 1>> is the early return 0
\* of line 21, which IouUnguarded leaves out
IouUnguarded(boxA, boxB) ==
    LET xA == Max2(boxA[1], boxB[1])
        yA == Max2(boxA[2], boxB[2])
        xB == Min2(boxA[3], boxB[3])
        yB == Min2(boxA[4], boxB[4])
        interW == Max2(0, xB - xA)
        interH == Max2(0, yB - yA)
        interArea == interW * interH
        boxAArea == (boxA[3] - boxA[1]) * (boxA[4] - boxA[2])
        boxBArea == (boxB[3] - boxB[1]) * (boxB[4] - boxB[2])
    IN  <<interArea, boxAArea + boxBArea - interArea>>
Iou(boxA, boxB) ==
    LET xA == Max2(boxA[1], boxB[1])
        yA == Max2(boxA[2], boxB[2])
        xB == Min2(boxA[3], boxB[3])
        yB == Min2(boxA[4], boxB[4])
        interW == Max2(0, xB - xA)
        interH == Max2(0, yB - yA)
        interArea == interW * interH
        boxAArea == (boxA[3] - boxA[1]) * (boxA[4] - boxA[2])
        boxBArea == (boxB[3] - boxB[1]) * (boxB[4] - boxB[2])
    IN  IF interArea = 0 THEN <<0, 1>>
        ELSE <<interArea, boxAArea + boxBArea - interArea>>

\* getCenter, doubled: <<2*cx, 2*cy>>
Center2(box) == <<box[1] + box[3], box[2] + box[4]>>

\* distance squared between two doubled points, i.e. 4 * distance^2
Dist2Sq(p1, p2) ==
    (p1[1] - p2[1]) * (p1[1] - p2[1]) + (p1[2] - p2[2]) * (p1[2] - p2[2])

\* line 67: iou(...) > 0.1
IouExceedsAlt(f) == 10 * f[1] >= f[2]
IouExceeds(f) == 10 * f[1] > f[2]

\* line 82: cy_p > frameHeight * 0.5 && dist < frameWidth * 0.2, on doubled
\* centres: 2*cy_p > frameHeight and 25 * (4 * dist^2) < 4 * frameWidth^2
InDangerZone(vbox, pbox, w, h) ==
    /\ Center2(pbox)[2] > h
    /\ 25 * Dist2Sq(Center2(vbox), Center2(pbox)) < 4 * w * w

\* line 90: Math.max(0, Math.min(score, 100))
ClampAlt(score) == Max2(0, score)
Clamp(score) == Max2(0, Min2(score, 100))

----------------------------------------------------------------------------
(* utils/riskLogic.ts: frame risk evaluator *)

\* lines 65-72: the inner loop over j for a fixed i
RECURSIVE OverlapInner(_, _, _)
OverlapInner(vehicles, i, j) ==
    IF j > Len(vehicles) THEN 0
    ELSE (IF IouExceeds(Iou(vehicles[i].bbox, vehicles[j].bbox)) THEN 1 ELSE 0)
         + OverlapInner(vehicles, i, j + 1)

\* lines 65-72: the outer loop over i
RECURSIVE OverlapLoop(_, _)
OverlapLoop(vehicles, i) ==
    IF i > Len(vehicles) THEN 0
    ELSE OverlapInner(vehicles, i, i + 1) + OverlapLoop(vehicles, i + 1)

\* lines 75-87: the inner loop over persons for one vehicle
RECURSIVE ProximityInner(_, _, _, _)
ProximityInner(v, persons, w, h) ==
    IF persons = <<>> THEN 0
    ELSE (IF InDangerZone(v.bbox, Head(persons).bbox, w, h) THEN 1 ELSE 0)
         + ProximityInner(v, Tail(persons), w, h)

\* lines 75-87: the outer loop over vehicles
RECURSIVE ProximityLoop(_, _, _, _)
ProximityLoop(vehicles, persons, w, h) ==
    IF vehicles = <<>> THEN 0
    ELSE ProximityInner(Head(vehicles), persons, w, h)
         + ProximityLoop(Tail(vehicles), persons, w, h)

\* lines 57-58: the class filters
IsVehicleAlt(d) == d.className # "person"
IsVehicle(d) == d.className \in VEHICLE_CLASSES
IsPerson(d) == d.className = "person"

ComputeFrameRisk(dets, w, h) ==
    LET vehicles == SelectSeq(dets, IsVehicle)
        persons == SelectSeq(dets, IsPerson)
        overlaps == OverlapLoop(vehicles, 1)
        proximityRisks == ProximityLoop(vehicles, persons, w, h)
        score == 3 * Len(vehicles) + 5 * Len(persons)
                 + 20 * overlaps + 30 * proximityRisks
    IN  [frameIndex |-> 0,
         score |-> Clamp(score),
         detections |-> dets,
         vehicleCount |-> Len(vehicles),
         personCount |-> Len(persons),
         overlaps |-> overlaps,
         proximityRisks |-> proximityRisks]

----------------------------------------------------------------------------
(* utils/riskLogic.ts: video aggregator *)

TierRank(level) ==
    CASE level = "LOW" -> 0
      [] level = "MEDIUM" -> 1
      [] level = "HIGH" -> 2
      [] level = "CRITICAL" -> 3

\* lines 116-125, on avgScore = sum / n
LevelOfMeanAlt(sum, n) ==
    IF sum <= 20 * n THEN "LOW"
    ELSE IF sum <= 50 * n THEN "MEDIUM"
    ELSE IF sum <= 75 * n THEN "HIGH"
    ELSE "CRITICAL"
LevelOfMeanSwapped(sum, n) ==
    IF sum < 20 * n THEN "LOW"
    ELSE IF sum < 50 * n THEN "HIGH"
    ELSE IF sum < 75 * n THEN "MEDIUM"
    ELSE "CRITICAL"
LevelOfMean(sum, n) ==
    IF sum < 20 * n THEN "LOW"
    ELSE IF sum < 50 * n THEN "MEDIUM"
    ELSE IF sum < 75 * n THEN "HIGH"
    ELSE "CRITICAL"

\* line 127: Math.round(avgScore), avgScore = sum / n
RoundedMeanAlt(sum, n) == sum \div n
RoundedMean(sum, n) == RoundDiv(sum, n)

AggregateVideoRisk(fs) ==
    IF Len(fs) = 0 THEN [riskLevel |-> "LOW", riskScore |-> 0]
    ELSE [riskLevel |-> LevelOfMean(SumSeq(fs), Len(fs)),
          riskScore |-> RoundedMean(SumSeq(fs), Len(fs))]

----------------------------------------------------------------------------
(* utils/riskLogic.ts: violation summarizer *)

RECURSIVE SumField(_, _)
SumField(fas, field) ==
    IF fas = <<>> THEN 0 ELSE Head(fas)[field] + SumField(Tail(fas), field)

IsHighRiskFrame(f) == f.score > 60

Violation(t, c, s) == [type |-> t, count |-> c, severity |-> s]

\* line 149: totalOverlaps > 5 ? 'high' : totalOverlaps > 2 ? 'medium' : 'low'
NearCollisionSeverityAlt(totalOverlaps) ==
    IF totalOverlaps >= 5 THEN "high"
    ELSE IF totalOverlaps >= 2 THEN "medium" ELSE "low"
NearCollisionSeverity(totalOverlaps) ==
    IF totalOverlaps > 5 THEN "high"
    ELSE IF totalOverlaps > 2 THEN "medium" ELSE "low"

\* line 183: highRiskFrames > 3
ClusterRuleFiresAlt(highRiskFrames) == highRiskFrames >= 3
ClusterRuleFires(highRiskFrames) == highRiskFrames > 3

\* line 192: violations.length === 0 && avgScore > 10
FallbackAppliesAlt(pushed, avgScore) == pushed = 0 /\ avgScore >= 10
FallbackAppliesUnscored(pushed, avgScore) == pushed = 0
FallbackApplies(pushed, avgScore) == pushed = 0 /\ avgScore > 10

\* the code divides by frameAnalyses.length; n = 0 is excluded by the caller.
\* avgScore is the integer riskScore, which Math.round (line 195) returns as
\* it is.
GenerateViolations(fas, avgScore) ==
    LET n == Len(fas)
        totalOverlaps == SumField(fas, "overlaps")
        totalProximity == SumField(fas, "proximityRisks")
        sumVehicles == SumField(fas, "vehicleCount")
        sumPersons == SumField(fas, "personCount")
        highRiskFrames == Len(SelectSeq(fas, IsHighRiskFrame))
        v1 == IF totalOverlaps > 0
              THEN <<Violation("Vehicle Near-Collisions", totalOverlaps,
                        NearCollisionSeverity(totalOverlaps))>>
              ELSE <<>>
        v2 == IF totalProximity > 0
              THEN <<Violation("Pedestrian Proximity Risks", totalProximity, "high")>>
              ELSE <<>>
        v3 == IF sumVehicles > 8 * n
              THEN <<Violation("High Traffic Congestion", RoundDiv(sumVehicles, n),
                        IF sumVehicles > 15 * n THEN "high" ELSE "medium")>>
              ELSE <<>>
        v4 == IF sumPersons > 5 * n
              THEN <<Violation("Crowded Pedestrian Area", RoundDiv(sumPersons, n),
                        IF sumPersons > 10 * n THEN "high" ELSE "medium")>>
              ELSE <<>>
        v5 == IF ClusterRuleFires(highRiskFrames)
              THEN <<Violation("High-Risk Frame Clusters", highRiskFrames, "high")>>
              ELSE <<>>
        specific == v1 \o v2 \o v3 \o v4 \o v5
    IN  IF FallbackApplies(Len(specific), avgScore)
        THEN <<Violation("General Traffic Activity", avgScore, "low")>>
        ELSE specific

----------------------------------------------------------------------------
(* utils/analysis.ts: analysis orchestrator *)

DefaultMaxFrames == 50
DefaultFrameSkip == 3
FrameWidthPx == 1920
FrameHeightPx == 1080

Abs(x) == IF x < 0 THEN 0 - x ELSE x

\* line 124
TotalEstimatedFramesAlt(cap, skip) == cap + skip
TotalEstimatedFrames(cap, skip) == cap * skip

\* line 130: frameIndex < totalEstimatedFrames
LoopContinues(i, total) == i < total

\* line 132, negated: frameIndex % frameSkip === 0 for frameIndex >= 0.  The
\* remainder of a non-negative dividend has the sign of the dividend, whatever
\* the sign of the divisor, and is NaN (never === 0) for the divisor 0.
RetainedAlt(i, skip) == skip # 0
Retained(i, skip) == skip # 0 /\ i % Abs(skip) = 0

\* lines 130-132: the first index at or after i at which the loop body runs
\* past the continue, or -1 when the loop condition fails first
RECURSIVE NextRetained(_, _, _)
NextRetained(i, total, skip) ==
    IF ~LoopContinues(i, total) THEN -1
    ELSE IF Retained(i, skip) THEN i
    ELSE NextRetained(i + 1, total, skip)

\* line 135: Math.min(95, Math.round((frameIndex / totalEstimatedFrames) * 100))
ProgressAtAlt(i, total) == RoundDiv(100 * i, total)
ProgressAt(i, total) == Min2(95, RoundDiv(100 * i, total))

\* what an observer of the run sees, in order: a call of onProgress with a
\* percentage, a call of the detection source for a frame index, or that call
\* throwing
ProgressEvent(v) == [kind |-> "progress", value |-> v]
FetchEvent(i) == [kind |-> "fetch", value |-> i]
ThrowEvent(i) == [kind |-> "throw", value |-> i]

\* lines 164-176
EmptyResult ==
    [riskLevel |-> "LOW", riskScore |-> 0, violations |-> <<>>,
     frameStats |-> [totalFrames |-> 0, processedFrames |-> 0,
                     avgVehicles |-> 0, avgPersons |-> 0,
                     maxScore |-> 0, minScore |-> 0]]

\* lines 161-205; avgVehicles and avgPersons are in tenths
FinalResult(fas, fs, total) ==
    IF Len(fas) = 0 THEN EmptyResult
    ELSE LET a == AggregateVideoRisk(fs)
             n == Len(fas)
         IN  [riskLevel |-> a.riskLevel,
              riskScore |-> a.riskScore,
              violations |-> GenerateViolations(fas, a.riskScore),
              frameStats |->
                  [totalFrames |-> total,
                   processedFrames |-> n,
                   avgVehicles |-> RoundDiv(10 * SumField(fas, "vehicleCount"), n),
                   avgPersons |-> RoundDiv(10 * SumField(fas, "personCount"), n),
                   maxScore |-> MaxSeq(fs),
                   minScore |-> MinSeq(fs)]]

\* lines 162 and 183: generateViolations is called, once, with the accumulated
\* list when the early return for an empty list has not been taken
SummarizerCallsAlt(fas) == <<Len(fas)>>
SummarizerCalls(fas) == IF Len(fas) = 0 THEN <<>> ELSE <<Len(fas)>>

\* a promise rejection and its cause
Rejection(cause) == [error |-> cause]
IsResultRecord(r) == "riskLevel" \in DOMAIN r

\* lines 159-205: leave the loop, emit 100, build the result, resolve
CompleteAlt(i, fas, fs, evs, cap, skip) ==
    [pc |-> "resolved", frameIndex |-> i,
     events |-> IF Len(fas) = 0 THEN evs ELSE Append(evs, ProgressEvent(100)),
     result |-> FinalResult(fas, fs, TotalEstimatedFrames(cap, skip)),
     summarized |-> SummarizerCalls(fas)]
Complete(i, fas, fs, evs, cap, skip) ==
    [pc |-> "resolved", frameIndex |-> i,
     events |-> Append(evs, ProgressEvent(100)),
     result |-> FinalResult(fas, fs, TotalEstimatedFrames(cap, skip)),
     summarized |-> SummarizerCalls(fas)]

\* lines 130-139 and 159-205: run from the loop head at index i to the next
\* await (line 139), or to the return when the loop ends first
RunFromLoopHead(i, fas, fs, evs, cap, skip) ==
    LET total == TotalEstimatedFrames(cap, skip)
        nxt == NextRetained(i, total, skip)
    IN  IF nxt = -1 THEN Complete(i, fas, fs, evs, cap, skip)
        ELSE [pc |-> "await", frameIndex |-> nxt,
              events |-> Append(evs, ProgressEvent(ProgressAt(nxt, total))),
              result |-> Nil, summarized |-> <<>>]

\* lines 119-139: the synchronous prefix of a call.  Reading file.name of a
\* missing file throws before anything else happens.
EnterAnalyzeVideo(f, cap, skip) ==
    IF f = None
    THEN [pc |-> "rejected", frameIndex |-> 0, events |-> <<>>,
          result |-> Rejection("TypeError"), summarized |-> <<>>]
    ELSE RunFromLoopHead(0, <<>>, <<>>, <<>>, cap, skip)

\* lines 142-156: after the delay, one frame is fetched, evaluated and
\* accumulated; then the cap is checked and the loop goes on
AfterFrame(i, fas, fs, evs, cap, skip) ==
    IF Len(fas) >= cap THEN Complete(i, fas, fs, evs, cap, skip)
    ELSE RunFromLoopHead(i + 1, fas, fs, evs, cap, skip)

\* the value the last onProgress call passed
LastProgress(evs) == evs[Len(evs)].value

----------------------------------------------------------------------------
(* App.tsx: handleAnalyze *)

NotStreetMessage ==
    "This is not a footage of street or road. Please upload traffic/street footage."
FailedMessage == "Analysis failed. Please try again."

\* line 36: result.isValidStreetFootage; a property the object does not have
\* reads as undefined, which is falsy
IsValidStreetFootage(r) ==
    IF "isValidStreetFootage" \in DOMAIN r THEN r.isValidStreetFootage ELSE FALSE

\* lines 43-55 (id and timestamp, taken from the clock, are left out);
\* displayName is kept as its comma-separated parts
NewAnalysis(clo, r) ==
    [locationName |-> IF clo.locationName # "" THEN clo.locationName
                      ELSE Head(clo.selectedLocation.displayName),
     lat |-> clo.selectedLocation.lat,
     lon |-> clo.selectedLocation.lon,
     riskLevel |-> r.riskLevel,
     riskScore |-> r.riskScore,
     videoName |-> clo.videoFile,
     violations |-> r.violations,
     frameStats |-> r.frameStats,
     isValidStreetFootage |-> IsValidStreetFootage(r)]

----------------------------------------------------------------------------
(* Inputs of the pure-function harnesses *)

BoxA == <<0, 0, 3, 4>>        \* area 12, centre (1.5, 2)
BoxB == <<0, 1, 11, 2>>       \* area 11; with BoxA: intersection 3, union 20
BoxC == <<2, 0, 7, 2>>        \* area 10; with BoxA: intersection 2, union 20
BoxP == <<1, 5, 2, 7>>        \* centre (1.5, 6), 4 away from the centre of BoxA
BoxQ == <<1, 4, 2, 6>>        \* centre (1.5, 5), 3 away from the centre of BoxA
BoxF == <<15, 6, 17, 8>>      \* far from every other box

SampleDetections ==
    {Det("car", BoxA), Det("motorcycle", BoxA), Det("truck", BoxB),
     Det("bus", BoxC), Det("bicycle", BoxF), Det("person", BoxP),
     Det("person", BoxQ), Det("traffic light", BoxA)}

\* <<frameWidth, frameHeight>>
SampleFrameSizes == {<<20, 10>>, <<25, 8>>}

SampleScores == {0, 10, 19, 20, 30, 40, 60, 80, 90, 95, 100}

\* scores around the tier thresholds, for repeated aggregation
RerunScores == {19, 20, 49, 50, 74, 75, 100}

----------------------------------------------------------------------------
(* Idle values of the variable groups a specification does not exercise *)

FrameHarnessIdle ==
    /\ detections = <<>>
    /\ frameWidth = FrameWidthPx
    /\ frameHeight = FrameHeightPx
    /\ frameAnalysis = Nil

AggHarnessIdle ==
    /\ scores = <<>>
    /\ agg = Nil
    /\ prev = Nil

ViolHarnessIdle ==
    /\ sampled = <<>>
    /\ aggregateScore = 0
    /\ summary = Nil

IouHarnessIdle ==
    /\ rectA = <<0, 0, 0, 0>>
    /\ rectB = <<0, 0, 0, 0>>
    /\ ratios = Nil

\* Sidebar.tsx lines 30-33: the useState initial values; nothing requested
SideIdle ==
    /\ searchResults = <<>>
    /\ showResults = FALSE
    /\ isLocating = FALSE
    /\ pendingSearches = <<>>
    /\ liveLocation = Nil
    /\ geocoded = Nil
    /\ searched = Nil

KernelIdle == ViolHarnessIdle /\ IouHarnessIdle /\ SideIdle

\* App.tsx lines 11-18: the useState initial values
AppInit ==
    /\ locationName = ""
    /\ selectedLocation = Nil
    /\ videoFile = None
    /\ isAnalyzing = FALSE
    /\ progress = 0
    /\ analyses = <<>>
    /\ currentAnalysis = Nil
    /\ errorMessage = ""
    /\ inFlight = 0

\* no invocation of analyzeVideo is in flight
RunIdle ==
    /\ pc = "idle"
    /\ caller = None
    /\ closure = Nil
    /\ file = None
    /\ maxFrames = 0
    /\ frameSkip = 0
    /\ frameIndex = 0
    /\ frameAnalyses = <<>>
    /\ frameScores = <<>>
    /\ events = <<>>
    /\ result = Nil
    /\ cancelRequested = FALSE
    /\ summarized = <<>>

----------------------------------------------------------------------------
(* Harness of computeFrameRisk *)

InitFrameRisk ==
    /\ detections \in SeqsUpTo(SampleDetections, MaxDets)
    /\ \E size \in SampleFrameSizes : frameWidth = size[1] /\ frameHeight = size[2]
    /\ frameAnalysis = Nil
    /\ AggHarnessIdle /\ AppInit /\ RunIdle /\ KernelIdle

EvaluateFrame ==
    /\ frameAnalysis = Nil
    /\ frameAnalysis' = ComputeFrameRisk(detections, frameWidth, frameHeight)
    /\ UNCHANGED <<detections, frameWidth, frameHeight, aggVars, kernelVars, appVars, runVars>>

NextFrameRisk == EvaluateFrame

SpecFrameRisk == InitFrameRisk /\ [][NextFrameRisk]_vars

----------------------------------------------------------------------------
(* Harness of aggregateVideoRisk: one call *)

InitAggregate ==
    /\ scores \in SeqsUpTo(SampleScores, MaxScores)
    /\ agg = Nil
    /\ prev = Nil
    /\ FrameHarnessIdle /\ AppInit /\ RunIdle /\ KernelIdle

Aggregate ==
    /\ agg = Nil
    /\ agg' = AggregateVideoRisk(scores)
    /\ UNCHANGED <<scores, prev, frameVars, kernelVars, appVars, runVars>>

NextAggregate == Aggregate

SpecAggregate == InitAggregate /\ [][NextAggregate]_vars

(* Harness of aggregateVideoRisk: call after call, remembering the last return *)

InitRerun ==
    /\ scores \in SeqsUpTo(RerunScores, MaxRerun)
    /\ agg = Nil
    /\ prev = Nil
    /\ FrameHarnessIdle /\ AppInit /\ RunIdle /\ KernelIdle

NewScores ==
    /\ agg # Nil
    /\ prev' = agg
    /\ scores' \in SeqsUpTo(RerunScores, MaxRerun)
    /\ agg' = Nil
    /\ UNCHANGED <<frameVars, kernelVars, appVars, runVars>>

NextRerun == Aggregate \/ NewScores

SpecRerun == InitRerun /\ [][NextRerun]_vars

----------------------------------------------------------------------------
(* Harness of generateViolations, called the way analyzeVideo calls it *)

\* what computeFrameRisk returns for a frame, without the detection list:
\* score = min(100, 3 vehicles + 5 persons + 20 overlaps + 30 proximityRisks)
Frame(v, p, k, q) ==
    [score |-> Clamp(3 * v + 5 * p + 20 * k + 30 * q),
     vehicleCount |-> v, personCount |-> p, overlaps |-> k, proximityRisks |-> q]

Quiet == Frame(0, 0, 0, 0)        \* score 0
Stroll == Frame(0, 2, 0, 0)       \* score 10
Light == Frame(3, 1, 0, 0)        \* score 14
Pair == Frame(2, 0, 1, 0)         \* score 26
Triple == Frame(3, 0, 3, 0)       \* score 69
Near == Frame(2, 1, 0, 2)         \* score 71
Jam == Frame(16, 0, 0, 0)         \* score 48
Crowd == Frame(0, 10, 0, 0)       \* score 50
Gridlock == Frame(14, 12, 0, 0)   \* score 100

SampleFrames == {Quiet, Stroll, Light, Pair, Triple, Near, Jam, Crowd, Gridlock}

ScoresOf(fas) == [i \in 1..Len(fas) |-> fas[i].score]

\* analysis.ts lines 162, 180: the list is not empty and the score passed is
\* the riskScore aggregateVideoRisk returned for its frame scores
InitViolations ==
    /\ sampled \in SeqsUpTo(SampleFrames, MaxSampled) \ {<<>>}
    /\ aggregateScore = AggregateVideoRisk(ScoresOf(sampled)).riskScore
    /\ summary = Nil
    /\ IouHarnessIdle /\ SideIdle
    /\ FrameHarnessIdle /\ AggHarnessIdle /\ AppInit /\ RunIdle

\* analysis.ts line 183
Summarize ==
    /\ summary = Nil
    /\ summary' = [violations |-> GenerateViolations(sampled, aggregateScore)]
    /\ UNCHANGED <<sampled, aggregateScore, iouVars, sideVars, frameVars, aggVars, appVars, runVars>>

NextViolations == Summarize

SpecViolations == InitViolations /\ [][NextViolations]_vars

----------------------------------------------------------------------------
(* Harness of iou *)

\* boxes [x1, y1, x2, y2] with x1 <= x2 and y1 <= y2, zero-area ones included
SampleBoxes ==
    {b \in (0..MaxCoord) \X (0..MaxCoord) \X (0..MaxCoord) \X (0..MaxCoord) :
        b[1] <= b[3] /\ b[2] <= b[4]}

InitIou ==
    /\ rectA \in SampleBoxes
    /\ rectB \in SampleBoxes
    /\ ratios = Nil
    /\ ViolHarnessIdle /\ SideIdle
    /\ FrameHarnessIdle /\ AggHarnessIdle /\ AppInit /\ RunIdle

EvaluateIou ==
    /\ ratios = Nil
    /\ ratios' = [ab |-> Iou(rectA, rectB), ba |-> Iou(rectB, rectA),
                  aa |-> Iou(rectA, rectA)]
    /\ UNCHANGED <<rectA, rectB, violVars, sideVars, frameVars, aggVars, appVars, runVars>>

NextIou == EvaluateIou

SpecIou == InitIou /\ [][NextIou]_vars

----------------------------------------------------------------------------
(* The app and the orchestrator as a state machine *)

\* detection lists in a 1920 x 1080 frame
CarBox == <<100, 400, 400, 700>>        \* centre (250, 550)
TruckBox == <<300, 400, 600, 700>>      \* with CarBox: IoU 30000 / 150000
WalkerBox == <<240, 600, 260, 700>>     \* centre (250, 650), lower half

SrcEmpty == <<>>
SrcOneCar == <<Det("car", CarBox)>>
SrcTwoCars == <<Det("car", CarBox), Det("truck", TruckBox)>>
SrcBusy == <<Det("car", CarBox), Det("truck", TruckBox), Det("person", WalkerBox),
             Det("person", WalkerBox), Det("traffic light", CarBox)>>

SourceFrames == {SrcEmpty, SrcOneCar, SrcTwoCars, SrcBusy}

\* simulateYoloDetection draws its list at random.  The source returns any of
\* SourceFrames for the first MaxVaried frames of a run and then keeps
\* returning the list it returned last.
SourceOutputs(fas) ==
    IF Len(fas) < MaxVaried THEN SourceFrames
    ELSE {fas[Len(fas)].detections}

Caps == -1..MaxCap
Strides == -1..MaxStride
Files == {"clip.mp4"}
Locations == {[lat |-> 18, lon |-> 73, displayName |-> <<"Pune", "Maharashtra", "India">>]}

Init == FrameHarnessIdle /\ AggHarnessIdle /\ AppInit /\ RunIdle /\ KernelIdle

\* the locals of analyzeVideo go away with the invocation
RunReset ==
    /\ pc' = "idle"
    /\ caller' = None
    /\ closure' = Nil
    /\ file' = None
    /\ maxFrames' = 0
    /\ frameSkip' = 0
    /\ frameIndex' = 0
    /\ frameAnalyses' = <<>>
    /\ frameScores' = <<>>
    /\ events' = <<>>
    /\ result' = Nil
    /\ cancelRequested' = FALSE
    /\ summarized' = <<>>

\* Sidebar.tsx handleFileChange -> setVideoFile
HandleFileChange(f) ==
    /\ videoFile' = f
    /\ UNCHANGED <<locationName, selectedLocation, isAnalyzing, progress, analyses,
                   currentAnalysis, errorMessage, inFlight, runVars, frameVars,
                   kernelVars, aggVars>>

\* Sidebar.tsx line 243: the Remove File button -> setVideoFile(null)
RemoveVideo ==
    /\ videoFile # None
    /\ videoFile' = None
    /\ UNCHANGED <<locationName, selectedLocation, isAnalyzing, progress, analyses,
                   currentAnalysis, errorMessage, inFlight, runVars, frameVars,
                   kernelVars, aggVars>>

\* Sidebar.tsx line 189: the button of the selected-location badge ->
\* setSelectedLocation(null)
ClearLocation ==
    /\ selectedLocation # Nil
    /\ selectedLocation' = Nil
    /\ UNCHANGED <<locationName, videoFile, isAnalyzing, progress, analyses,
                   currentAnalysis, errorMessage, inFlight, runVars, frameVars,
                   kernelVars, aggVars>>

\* Sidebar.tsx lines 48-53
SelectLocation(loc) ==
    /\ selectedLocation' = loc
    /\ locationName' = Head(loc.displayName)
    /\ showResults' = FALSE
    /\ searchResults' = <<>>

\* Sidebar.tsx handleSelectLocation, from a click on a suggestion
HandleSelectLocation(loc) ==
    /\ SelectLocation(loc)
    /\ UNCHANGED <<videoFile, isAnalyzing, progress, analyses, currentAnalysis,
                   errorMessage, inFlight, runVars, frameVars, violVars, iouVars,
                   isLocating, pendingSearches, liveLocation, geocoded, searched,
                   aggVars>>

\* a caller other than the app invokes analyzeVideo(file, onProgress, cap, skip)
AnalyzeVideoCall(f, cap, skip) ==
    /\ pc = "idle"
    /\ LET r == EnterAnalyzeVideo(f, cap, skip)
       IN  /\ pc' = r.pc
           /\ frameIndex' = r.frameIndex
           /\ events' = r.events
           /\ result' = r.result
           /\ summarized' = r.summarized
    /\ caller' = "direct"
    /\ closure' = Nil
    /\ file' = f
    /\ maxFrames' = cap
    /\ frameSkip' = skip
    /\ frameAnalyses' = <<>>
    /\ frameScores' = <<>>
    /\ cancelRequested' = FALSE
    /\ UNCHANGED <<appVars, frameVars, kernelVars, aggVars>>

\* Sidebar.tsx line 307: disabled={!videoFile || !selectedLocation || isAnalyzing}
StartEnabledAlt == videoFile # None /\ selectedLocation # Nil
StartEnabled == videoFile # None /\ selectedLocation # Nil /\ ~isAnalyzing

\* App.tsx line 25: if (!videoFile || !selectedLocation) return
HasInputs == videoFile # None /\ selectedLocation # Nil

\* App.tsx lines 24-33, up to the await, from a click on the start button.
\* setProgress is the progress callback.  One invocation of analyzeVideo is
\* followed at a time: a run started while the app's previous run is still
\* in flight would take its place here.
HandleAnalyze ==
    /\ pc = "idle" \/ caller = "app"
    /\ StartEnabled
    /\ HasInputs
    /\ inFlight' = inFlight + 1
    /\ LET r == EnterAnalyzeVideo(videoFile, DefaultMaxFrames, DefaultFrameSkip)
       IN  /\ pc' = r.pc
           /\ frameIndex' = r.frameIndex
           /\ events' = r.events
           /\ result' = r.result
           /\ summarized' = r.summarized
           /\ progress' = IF r.events = <<>> THEN 0 ELSE LastProgress(r.events)
    /\ isAnalyzing' = TRUE
    /\ errorMessage' = ""
    /\ caller' = "app"
    /\ closure' = [videoFile |-> videoFile, selectedLocation |-> selectedLocation,
                   locationName |-> locationName]
    /\ file' = videoFile
    /\ maxFrames' = DefaultMaxFrames
    /\ frameSkip' = DefaultFrameSkip
    /\ frameAnalyses' = <<>>
    /\ frameScores' = <<>>
    /\ cancelRequested' = FALSE
    /\ UNCHANGED <<locationName, selectedLocation, videoFile, analyses,
                   currentAnalysis, frameVars, kernelVars, aggVars>>

\* analysis.ts lines 139-156 (and on to 139 again or to the return): the delay
\* elapses and the source returns a detection list
ProcessFrame ==
    /\ pc = "await"
    /\ \E d \in SourceOutputs(frameAnalyses) :
       \E fa \in {[ComputeFrameRisk(d, FrameWidthPx, FrameHeightPx)
                      EXCEPT !.frameIndex = frameIndex]} :
       \E r \in {AfterFrame(frameIndex, Append(frameAnalyses, fa),
                            Append(frameScores, fa.score),
                            Append(events, FetchEvent(frameIndex)),
                            maxFrames, frameSkip)} :
              /\ frameAnalyses' = Append(frameAnalyses, fa)
              /\ frameScores' = Append(frameScores, fa.score)
              /\ pc' = r.pc
              /\ frameIndex' = r.frameIndex
              /\ events' = r.events
              /\ result' = r.result
              /\ summarized' = r.summarized
              /\ progress' = IF caller = "app" THEN LastProgress(r.events) ELSE progress
    /\ UNCHANGED <<caller, closure, file, maxFrames, frameSkip, cancelRequested,
                   locationName, selectedLocation, videoFile, isAnalyzing, analyses,
                   currentAnalysis, errorMessage, inFlight, frameVars, kernelVars,
                   aggVars>>

\* the same step when the detection source throws a fatal error instead: the
\* loop has no try/catch, so the promise rejects with that error
SourceThrowsSwallowed ==
    /\ pc = "await"
    /\ \E r \in {RunFromLoopHead(frameIndex + 1, frameAnalyses, frameScores,
                    events \o <<FetchEvent(frameIndex), ThrowEvent(frameIndex)>>,
                    maxFrames, frameSkip)} :
           /\ pc' = r.pc
           /\ frameIndex' = r.frameIndex
           /\ events' = r.events
           /\ result' = r.result
           /\ summarized' = r.summarized
           /\ progress' = IF caller = "app" THEN LastProgress(r.events) ELSE progress
    /\ UNCHANGED <<caller, closure, file, maxFrames, frameSkip, frameAnalyses,
                   frameScores, cancelRequested, locationName, selectedLocation,
                   videoFile, isAnalyzing, analyses, currentAnalysis, errorMessage,
                   inFlight, frameVars, kernelVars, aggVars>>
SourceThrows ==
    /\ pc = "await"
    /\ pc' = "rejected"
    /\ events' = events \o <<FetchEvent(frameIndex), ThrowEvent(frameIndex)>>
    /\ result' = Rejection("SourceError")
    /\ UNCHANGED <<caller, closure, file, maxFrames, frameSkip, frameIndex,
                   frameAnalyses, frameScores, cancelRequested, summarized, appVars,
                   frameVars, kernelVars, aggVars>>

\* App.tsx lines 33-65 and 69-72: analyzeVideo resolved
HandleResolved ==
    /\ pc = "resolved"
    /\ caller = "app"
    /\ IF ~IsValidStreetFootage(result)
       THEN /\ errorMessage' = NotStreetMessage
            /\ videoFile' = None
            /\ UNCHANGED <<analyses, currentAnalysis, locationName, selectedLocation>>
       ELSE /\ analyses' = Append(analyses, NewAnalysis(closure, result))
            /\ currentAnalysis' = NewAnalysis(closure, result)
            /\ videoFile' = None
            /\ locationName' = ""
            /\ selectedLocation' = Nil
            /\ UNCHANGED errorMessage
    /\ isAnalyzing' = FALSE
    /\ progress' = 0
    /\ inFlight' = inFlight - 1
    /\ RunReset
    /\ UNCHANGED <<frameVars, kernelVars, aggVars>>

\* App.tsx lines 66-72: analyzeVideo rejected
HandleRejectedNoFinally ==
    /\ pc = "rejected"
    /\ caller = "app"
    /\ errorMessage' = FailedMessage
    /\ inFlight' = inFlight - 1
    /\ RunReset
    /\ UNCHANGED <<locationName, selectedLocation, videoFile, analyses, isAnalyzing,
                   progress, currentAnalysis, frameVars, kernelVars, aggVars>>
HandleRejected ==
    /\ pc = "rejected"
    /\ caller = "app"
    /\ errorMessage' = FailedMessage
    /\ isAnalyzing' = FALSE
    /\ progress' = 0
    /\ inFlight' = inFlight - 1
    /\ RunReset
    /\ UNCHANGED <<locationName, selectedLocation, videoFile, analyses,
                   currentAnalysis, frameVars, kernelVars, aggVars>>

\* somebody asks for the run in progress to be cancelled.  analyzeVideo takes
\* no cancellation token and handleAnalyze keeps no handle on the run, so the
\* request is recorded here and read by nothing.
RequestCancel ==
    /\ pc = "await"
    /\ ~cancelRequested
    /\ cancelRequested' = TRUE
    /\ UNCHANGED <<pc, caller, closure, file, maxFrames, frameSkip, frameIndex,
                   frameAnalyses, frameScores, events, result, summarized, appVars,
                   frameVars, kernelVars, aggVars>>

Next ==
    \/ \E f \in Files : HandleFileChange(f)
    \/ RemoveVideo
    \/ \E loc \in Locations : HandleSelectLocation(loc)
    \/ ClearLocation
    \/ \E f \in Files \cup {None}, cap \in Caps, skip \in Strides :
          AnalyzeVideoCall(f, cap, skip)
    \/ HandleAnalyze
    \/ ProcessFrame
    \/ SourceThrows
    \/ HandleResolved
    \/ HandleRejected
    \/ RequestCancel

Spec == Init /\ [][Next]_vars

\* The delay of analysis.ts line 139 is a timer, and the continuations of
\* handleAnalyze after its await are promise reactions: the event loop runs
\* each of them once it is due.
SpecLive ==
    /\ Spec
    /\ WF_vars(ProcessFrame)
    /\ WF_vars(HandleResolved)
    /\ WF_vars(HandleRejected)

----------------------------------------------------------------------------
(* utils/geocode.ts and components/Sidebar.tsx: location search *)

\* a settled promise
Fulfilled(v) == [state |-> "fulfilled", value |-> v]
Rejected(cause) == [state |-> "rejected", value |-> Rejection(cause)]

\* what the geocoding service knows: items as they come in the JSON body, the
\* numbers as strings.  A display name "a, b, c" is kept as its parts
\* <<"a", " b", " c">>.
ServiceItems ==
    <<[lat |-> "18", lon |-> "73", display_name |-> <<"Pune", " Maharashtra", " India">>],
      [lat |-> "28", lon |-> "77", display_name |-> <<"Delhi", " India">>]>>

Queries == {"Pu", "Pune", "Delhi"}
Addresses == {"P", "Pune"}
Positions == {<<-33, 151>>}

\* the body of a successful search response for q
ServiceHits(q) ==
    LET Matches(item) == item.display_name[1] = q
    IN  SelectSeq(ServiceItems, Matches)

\* parseFloat of the decimal form of a whole number of degrees
ParseFloat(str) == CHOOSE n \in -180..180 : ToString(n) = str

\* lines 342-346 and 306-310 of geocode.ts
ToLocationResult(item) ==
    [lat |-> ParseFloat(item.lat), lon |-> ParseFloat(item.lon),
     displayName |-> item.display_name]

\* ways a request to the service ends: a body with hits, an empty array, a
\* body that is not an array, or fetch / response.json() throwing
SearchOutcomes == {"ok", "empty", "malformed", "failed"}

MapItems(items) == [i \in 1..Len(items) |-> ToLocationResult(items[i])]

\* geocode.ts searchLocations
SearchLocations(query, outcome) ==
    IF Len(query) < 3 THEN Fulfilled(<<>>)
    ELSE IF outcome \in {"failed", "malformed"} THEN Fulfilled(<<>>)
    ELSE IF outcome = "empty" THEN Fulfilled(<<>>)
    ELSE Fulfilled(MapItems(ServiceHits(query)))

\* geocode.ts geocodeLocation
GeocodeLocation(address, outcome) ==
    IF Len(address) < 2 THEN Fulfilled(Nil)
    ELSE IF outcome = "failed" THEN Fulfilled(Nil)
    ELSE IF outcome = "ok" /\ Len(ServiceHits(address)) > 0
         THEN Fulfilled(ToLocationResult(ServiceHits(address)[1]))
    ELSE Fulfilled(Nil)

\* Number.prototype.toFixed(4) of a whole number of degrees
ToFixed4(n) == ToString(n) \o ".0000"

\* `${latitude.toFixed(4)}, ${longitude.toFixed(4)}`, as its parts
CoordinateName(lat, lon) == <<ToFixed4(lat), " " \o ToFixed4(lon)>>

\* ways the browser answers getCurrentPosition, and ways the reverse lookup
\* ends: a body with display_name, a body without it, or a throw
GeoOutcomes == {"unsupported", "denied", "located"}
LookupOutcomes == {"named", "unnamed", "failed"}

\* the display_name the reverse lookup gives for a position
ReverseName(lat, lon) == <<"Sydney", " Australia">>

\* geocode.ts getLiveLocation
GetLiveLocationNoCatch(geo, lat, lon, lookup) ==
    IF geo # "located" THEN Fulfilled(Nil)
    ELSE IF lookup = "named"
         THEN Fulfilled([lat |-> lat, lon |-> lon, displayName |-> ReverseName(lat, lon)])
    ELSE IF lookup = "unnamed"
         THEN Fulfilled([lat |-> lat, lon |-> lon, displayName |-> CoordinateName(lat, lon)])
    ELSE Rejected("NetworkError")
GetLiveLocation(geo, lat, lon, lookup) ==
    IF geo # "located" THEN Fulfilled(Nil)
    ELSE IF lookup = "named"
         THEN Fulfilled([lat |-> lat, lon |-> lon, displayName |-> ReverseName(lat, lon)])
    ELSE Fulfilled([lat |-> lat, lon |-> lon, displayName |-> CoordinateName(lat, lon)])

\* what the sidebar's handlers leave alone
besideSidebar ==
    <<videoFile, isAnalyzing, progress, analyses, currentAnalysis, errorMessage,
      inFlight, runVars, frameVars, violVars, iouVars, aggVars>>

RemoveAt(s, k) == SubSeq(s, 1, k - 1) \o SubSeq(s, k + 1, Len(s))

\* Sidebar.tsx lines 35-46, up to the await: the user edits the search box
HandleSearch(query) ==
    /\ locationName' = query
    /\ selectedLocation' = Nil
    /\ IF Len(query) >= 3
       THEN /\ Len(pendingSearches) < MaxPending
            /\ pendingSearches' = Append(pendingSearches, query)
            /\ UNCHANGED <<searchResults, showResults>>
       ELSE /\ searchResults' = <<>>
            /\ showResults' = FALSE
            /\ UNCHANGED pendingSearches
    /\ UNCHANGED <<isLocating, liveLocation, geocoded, searched, besideSidebar>>

\* Sidebar.tsx lines 39-41: one of the searches in flight settles, and the
\* invocation of handleSearch that awaited it goes on
SearchResponse(k, outcome) ==
    /\ k \in 1..Len(pendingSearches)
    /\ \E r \in {SearchLocations(pendingSearches[k], outcome)} :
          /\ searched' = [query |-> pendingSearches[k], outcome |-> outcome,
                          settled |-> r]
          /\ IF r.state = "fulfilled"
             THEN /\ searchResults' = r.value
                  /\ showResults' = TRUE
             ELSE UNCHANGED <<searchResults, showResults>>
    /\ pendingSearches' = RemoveAt(pendingSearches, k)
    /\ UNCHANGED <<locationName, selectedLocation, isLocating, liveLocation,
                   geocoded, besideSidebar>>

\* a caller invokes geocodeLocation(address); the sidebar does not
GeocodeLocationCall(address, outcome) ==
    /\ geocoded' = [address |-> address, outcome |-> outcome,
                    settled |-> GeocodeLocation(address, outcome)]
    /\ UNCHANGED <<locationName, selectedLocation, searchResults, showResults,
                   isLocating, pendingSearches, liveLocation, searched, besideSidebar>>

\* Sidebar.tsx lines 140-160: a click on a suggestion of the open dropdown
ClickSuggestion(i) ==
    /\ showResults
    /\ i \in 1..Len(searchResults)
    /\ HandleSelectLocation(searchResults[i])

\* Sidebar.tsx lines 55-56, up to the await; the button is disabled while
\* isLocating (line 167)
HandleGetLiveLocation ==
    /\ ~isLocating
    /\ isLocating' = TRUE
    /\ liveLocation' = [state |-> "pending"]
    /\ UNCHANGED <<locationName, selectedLocation, searchResults, showResults,
                   pendingSearches, geocoded, searched, besideSidebar>>

\* Sidebar.tsx lines 57-61: getLiveLocation settles.  A rejection would leave
\* the handler at its await.
LiveLocationSettles(geo, lat, lon, lookup) ==
    /\ liveLocation = [state |-> "pending"]
    /\ \E r \in {GetLiveLocation(geo, lat, lon, lookup)} :
          /\ liveLocation' = [state |-> r.state, value |-> r.value, geo |-> geo,
                              lat |-> lat, lon |-> lon, lookup |-> lookup]
          /\ IF r.state = "fulfilled"
             THEN /\ isLocating' = FALSE
                  /\ IF r.value # Nil
                     THEN SelectLocation(r.value)
                     ELSE UNCHANGED <<selectedLocation, locationName, showResults,
                                      searchResults>>
             ELSE UNCHANGED <<isLocating, selectedLocation, locationName,
                              showResults, searchResults>>
    /\ UNCHANGED <<pendingSearches, geocoded, searched, besideSidebar>>

NextSidebar ==
    \/ \E q \in Queries : HandleSearch(q)
    \/ \E k \in 1..MaxPending, o \in SearchOutcomes : SearchResponse(k, o)
    \/ \E a \in Addresses, o \in SearchOutcomes : GeocodeLocationCall(a, o)
    \/ \E i \in 1..Len(ServiceItems) : ClickSuggestion(i)
    \/ ClearLocation
    \/ HandleGetLiveLocation
    \/ \E pos \in Positions, lookup \in LookupOutcomes :
          LiveLocationSettles("located", pos[1], pos[2], lookup)
    \/ \E geo \in {"unsupported", "denied"} : LiveLocationSettles(geo, 0, 0, "failed")

SpecSidebar == Init /\ [][NextSidebar]_vars

----------------------------------------------------------------------------
(* Claims about computeFrameRisk, checked under SpecFrameRisk *)

\* the weighted sum before the clamp, from the counts the evaluator returned
RawScore(fa) ==
    3 * fa.vehicleCount + 5 * fa.personCount + 20 * fa.overlaps
    + 30 * fa.proximityRisks

\* C1: for every detection list and positive frame size the score returned by
\* computeFrameRisk lies in 0..100, however many incidents the list produces.
C1_ScoreInRange ==
    frameAnalysis # Nil =>
        /\ frameAnalysis.score >= 0
        /\ frameAnalysis.score <= 100

\* a list whose incidents add up to more than 100 has been evaluated
C1_Witness ==
    /\ frameAnalysis # Nil
    /\ frameWidth > 0 /\ frameHeight > 0
    /\ RawScore(frameAnalysis) > 100
    /\ frameAnalysis.overlaps > 0
    /\ frameAnalysis.proximityRisks > 0

\* the unit cells a box with integer corners covers
Cells(box) ==
    {<<x, y>> : x \in box[1]..(box[3] - 1), y \in box[2]..(box[4] - 1)}

\* intersection over union strictly above one tenth, by counting cells
OverlapsByCells(a, b) ==
    10 * Cardinality(Cells(a) \cap Cells(b)) > Cardinality(Cells(a) \cup Cells(b))

C2_V == {i \in 1..Len(detections) :
            detections[i].className \in {"car", "motorcycle", "bus", "truck", "bicycle"}}
C2_P == {i \in 1..Len(detections) : detections[i].className = "person"}
C2_K == {pr \in C2_V \X C2_V :
            /\ pr[1] < pr[2]
            /\ OverlapsByCells(detections[pr[1]].bbox, detections[pr[2]].bbox)}
C2_Q == {pr \in C2_V \X C2_P :
            LET v == detections[pr[1]].bbox
                q == detections[pr[2]].bbox
                dx2 == (v[1] + v[3]) - (q[1] + q[3])
                dy2 == (v[2] + v[4]) - (q[2] + q[4])
            IN  /\ q[2] + q[4] > frameHeight
                /\ 25 * (dx2 * dx2 + dy2 * dy2) < 4 * frameWidth * frameWidth}

C2_Expected ==
    3 * Cardinality(C2_V) + 5 * Cardinality(C2_P)
    + 20 * Cardinality(C2_K) + 30 * Cardinality(C2_Q)

\* C2: computeFrameRisk returns score = min(100, 3V + 5P + 20K + 30Q) with
\* vehicleCount V, personCount P, overlaps K (unordered pairs of distinct
\* vehicles with IoU > 0.1) and proximityRisks Q (vehicle-person pairs with the
\* person's centre below mid-height and the centres closer than 20% of the
\* width); the empty list gives all zeros, and two vehicles with IoU 0.15 alone
\* give score 26 with one overlap.
C2_ScoreFormula ==
    frameAnalysis # Nil =>
        /\ frameAnalysis.score = Min2(100, C2_Expected)
        /\ frameAnalysis.vehicleCount = Cardinality(C2_V)
        /\ frameAnalysis.personCount = Cardinality(C2_P)
        /\ frameAnalysis.overlaps = Cardinality(C2_K)
        /\ frameAnalysis.proximityRisks = Cardinality(C2_Q)
        /\ detections = <<>> =>
              /\ frameAnalysis.score = 0
              /\ frameAnalysis.vehicleCount = 0 /\ frameAnalysis.personCount = 0
              /\ frameAnalysis.overlaps = 0 /\ frameAnalysis.proximityRisks = 0
        /\ detections = <<Det("car", BoxA), Det("truck", BoxB)>> =>
              /\ frameAnalysis.score = 26
              /\ frameAnalysis.overlaps = 1

\* the two vehicles with IoU 3/20 = 0.15 have been evaluated
C2_Witness ==
    /\ frameAnalysis # Nil
    /\ detections = <<Det("car", BoxA), Det("truck", BoxB)>>
    /\ Iou(BoxA, BoxB) = <<3, 20>>
    /\ frameAnalysis.score = 26

----------------------------------------------------------------------------
(* Claims about aggregateVideoRisk, checked under SpecAggregate and SpecRerun *)

\* C4: for a non-empty list the tier is LOW for a mean in [0,20), MEDIUM in
\* [20,50), HIGH in [50,75), CRITICAL in [75,100]; the empty list gives
\* (LOW, 0); [10,10,10] gives (LOW,10), [30,40] (MEDIUM,35), [60,80] (HIGH,70),
\* [90,95] (CRITICAL,93).
C4_TierTable ==
    agg # Nil =>
        LET n == Len(scores)
            total == SumSeq(scores)
            Is(level, score) == agg = [riskLevel |-> level, riskScore |-> score]
        IN  /\ n = 0 => Is("LOW", 0)
            /\ (n > 0 /\ 0 <= total /\ total < 20 * n) => agg.riskLevel = "LOW"
            /\ (n > 0 /\ 20 * n <= total /\ total < 50 * n) => agg.riskLevel = "MEDIUM"
            /\ (n > 0 /\ 50 * n <= total /\ total < 75 * n) => agg.riskLevel = "HIGH"
            /\ (n > 0 /\ 75 * n <= total /\ total <= 100 * n) => agg.riskLevel = "CRITICAL"
            /\ scores = <<10, 10, 10>> => Is("LOW", 10)
            /\ scores = <<30, 40>> => Is("MEDIUM", 35)
            /\ scores = <<60, 80>> => Is("HIGH", 70)
            /\ scores = <<90, 95>> => Is("CRITICAL", 93)

\* a list whose mean is exactly a threshold has been aggregated
C4_Witness ==
    /\ agg # Nil
    /\ scores = <<20, 20, 20>>
    /\ agg.riskLevel = "MEDIUM"

\* C5 as stated: two lists with the same riskScore get the same riskLevel, and
\* a larger riskScore never has a lower tier.
C5_LevelIsFunctionOfScore ==
    (agg # Nil /\ prev # Nil) =>
        /\ agg.riskScore = prev.riskScore => agg.riskLevel = prev.riskLevel
        /\ agg.riskScore > prev.riskScore =>
              TierRank(agg.riskLevel) >= TierRank(prev.riskLevel)

\* C5 amended: riskLevel is a monotonic function of the unrounded mean, not of
\* riskScore: a larger riskScore never has a lower tier, and two lists with the
\* same riskScore have the same tier unless that score is 20, 50 or 75, where
\* the tiers are at most one step apart.
C5_LevelMonotoneInScore ==
    (agg # Nil /\ prev # Nil) =>
        /\ agg.riskScore > prev.riskScore =>
              TierRank(agg.riskLevel) >= TierRank(prev.riskLevel)
        /\ (agg.riskScore = prev.riskScore /\ agg.riskScore \notin {20, 50, 75}) =>
              agg.riskLevel = prev.riskLevel
        /\ agg.riskScore = prev.riskScore =>
              /\ TierRank(agg.riskLevel) - TierRank(prev.riskLevel) <= 1
              /\ TierRank(prev.riskLevel) - TierRank(agg.riskLevel) <= 1

\* two aggregations returned the same riskScore with different tiers
C5_Witness ==
    /\ agg # Nil /\ prev # Nil
    /\ agg.riskScore = 20 /\ prev.riskScore = 20
    /\ agg.riskLevel = "LOW" /\ prev.riskLevel = "MEDIUM"

----------------------------------------------------------------------------
(* Claims about analyzeVideo and handleAnalyze, checked under Spec *)

IsProgress(e) == e.kind = "progress"
IsFetch(e) == e.kind = "fetch"
IsThrow(e) == e.kind = "throw"
Terminal == pc \in {"resolved", "rejected"}
ProgressAtIndices == {i \in 1..Len(events) : IsProgress(events[i])}
FetchAtIndices == {i \in 1..Len(events) : IsFetch(events[i])}

\* the degenerate result, written out
DegenerateRun ==
    [riskLevel |-> "LOW", riskScore |-> 0, violations |-> <<>>,
     frameStats |-> [totalFrames |-> 0, processedFrames |-> 0, avgVehicles |-> 0,
                     avgPersons |-> 0, maxScore |-> 0, minScore |-> 0]]

\* C3: the riskScore of a run is the mean of the scores of the processed
\* frames rounded to the nearest integer (halves up) when at least one frame
\* was processed, else 0, and it is what aggregateVideoRisk returns for the
\* list of frame scores.
C3_RiskScoreIsRoundedMean ==
    pc = "resolved" =>
        LET n == Len(frameAnalyses)
            total == SumField(frameAnalyses, "score")
            r == result.riskScore
        IN  /\ Len(frameScores) = n
            /\ \A i \in 1..n : frameScores[i] = frameAnalyses[i].score
            /\ n = 0 => r = 0
            /\ n > 0 => (2 * n * r - n <= 2 * total /\ 2 * total < 2 * n * r + n)
            /\ AggregateVideoRisk(frameScores).riskScore = r

\* a run whose mean frame score, 14.5, lies halfway between two integers
C3_Witness ==
    /\ pc = "resolved"
    /\ frameScores = <<3, 26>>
    /\ result.riskScore = 15

\* C6: a run with frame cap 0 processes no frame and resolves with exactly the
\* degenerate result, after calling the progress callback with 100; it does
\* not reject.
C6_ZeroCapIsDegenerate ==
    (pc # "idle" /\ file # None /\ maxFrames = 0) =>
        /\ pc = "resolved"
        /\ result = DegenerateRun
        /\ frameAnalyses = <<>>
        /\ FetchAtIndices = {}
        /\ \E i \in ProgressAtIndices : events[i].value = 100

\* a run with cap 0 and a positive stride has ended
C6_Witness ==
    /\ pc = "resolved"
    /\ file # None
    /\ maxFrames = 0
    /\ frameSkip > 0

C8_ProgressSequence ==
    pc \in {"await", "resolved"} =>
        /\ \A i \in ProgressAtIndices : events[i].value \in 0..100
        /\ \A i, j \in ProgressAtIndices : i < j => events[i].value <= events[j].value
        /\ \A i \in ProgressAtIndices :
              (i < Len(events) \/ pc = "await") => events[i].value <= 95
        /\ \A k \in FetchAtIndices :
              /\ k > 1
              /\ IsProgress(events[k - 1])
              /\ events[k - 1].value <= 95
        /\ Cardinality({i \in ProgressAtIndices : events[i].value = 100}) <= 1
        /\ pc = "resolved" =>
              /\ events[Len(events)] = ProgressEvent(100)
              /\ Cardinality({i \in ProgressAtIndices : events[i].value = 100}) = 1

\* a run of the default length has resolved, having reported 95 more than once
C8_Witness ==
    /\ pc = "resolved"
    /\ Len(frameAnalyses) = DefaultMaxFrames
    /\ Cardinality({i \in ProgressAtIndices : events[i].value = 95}) >= 2
    /\ events[Len(events)] = ProgressEvent(100)

\* C9: once cancellation has been requested no further detection is fetched,
\* no further frame is accumulated and the run produces no result record.
C9_CancelStopsRun ==
    [][cancelRequested =>
          /\ Len(SelectSeq(events', IsFetch)) <= Len(SelectSeq(events, IsFetch))
          /\ Len(frameAnalyses') <= Len(frameAnalyses)
          /\ ~IsResultRecord(result')]_vars

\* C10: when the source throws for a frame the run rejects with that error:
\* the frame is not retried, no later frame is fetched, the failed frame is
\* not accumulated and no result record exists; handleAnalyze then leaves the
\* history and the current analysis alone and shows the failure message.
C10_SourceErrorIsFatal ==
    /\ []((\E i \in 1..Len(events) : IsThrow(events[i])) =>
            /\ pc = "rejected"
            /\ result = Rejection("SourceError")
            /\ events[Len(events)] = ThrowEvent(frameIndex)
            /\ Cardinality({i \in FetchAtIndices : events[i].value = frameIndex}) = 1
            /\ \A i \in FetchAtIndices : events[i].value <= frameIndex
            /\ Len(frameAnalyses) = Cardinality(FetchAtIndices) - 1)
    /\ [][pc = "rejected" =>
            /\ analyses' = analyses
            /\ currentAnalysis' = currentAnalysis
            /\ pc' = "rejected" => (events' = events /\ result' = result
                                    /\ frameAnalyses' = frameAnalyses)
            /\ pc' # "rejected" => (pc' = "idle" /\ errorMessage' = FailedMessage
                                    /\ ~isAnalyzing')]_vars

\* the app has handled a run whose detection source threw (handleAnalyze never
\* passes a missing file, so nothing else rejects a run it started)
C10_Witness ==
    /\ pc = "idle"
    /\ errorMessage = FailedMessage
    /\ ~isAnalyzing
    /\ analyses = <<>>

----------------------------------------------------------------------------
(* Claims about the history kept by App.tsx, checked under Spec *)

\* a result that carries a validity flag, and whose flag says no
CarriesValidityFlag(r) == "isValidStreetFootage" \in DOMAIN r
JudgedInvalid(r) == CarriesValidityFlag(r) /\ ~r.isValidStreetFootage

\* handleAnalyze returns to the app after analyzeVideo resolved
ResolvedRunHandled == pc = "resolved" /\ caller = "app" /\ pc' = "idle"

\* C11: when analyzeVideo resolves with a result that has not been judged
\* invalid street footage, handleAnalyze creates exactly one RiskAnalysis with
\* that result's riskLevel, riskScore, violations and frameStats, appends it as
\* the last element of the history and makes it the current analysis.
C11_CompletedRunIsRecorded ==
    [][(ResolvedRunHandled /\ ~JudgedInvalid(result)) =>
          /\ Len(analyses') = Len(analyses) + 1
          /\ SubSeq(analyses', 1, Len(analyses)) = analyses
          /\ analyses'[Len(analyses')].riskLevel = result.riskLevel
          /\ analyses'[Len(analyses')].riskScore = result.riskScore
          /\ analyses'[Len(analyses')].violations = result.violations
          /\ analyses'[Len(analyses')].frameStats = result.frameStats
          /\ currentAnalysis' = analyses'[Len(analyses')]]_vars

\* C12: analyzeVideo resolves with a normal result record that carries a
\* validity flag; when the flag is false handleAnalyze leaves the history and
\* the current analysis unchanged, sets the not-street-footage message (not the
\* failure message), clears the selected video and ends with isAnalyzing false.
C12_InvalidFootageIsDiscarded ==
    [][ResolvedRunHandled =>
          /\ IsResultRecord(result)
          /\ CarriesValidityFlag(result)
          /\ ~result.isValidStreetFootage =>
                /\ analyses' = analyses
                /\ currentAnalysis' = currentAnalysis
                /\ errorMessage' = NotStreetMessage
                /\ errorMessage' # FailedMessage
                /\ videoFile' = None
                /\ ~isAnalyzing']_vars

----------------------------------------------------------------------------
(* Claims about generateViolations, checked under SpecViolations *)

RuleOrder ==
    <<"Vehicle Near-Collisions", "Pedestrian Proximity Risks",
      "High Traffic Congestion", "Crowded Pedestrian Area",
      "High-Risk Frame Clusters">>

FallbackType == "General Traffic Activity"

\* totals over the list that was summarized
Total(field) == SumField(sampled, field)
HighRiskCount == Cardinality({i \in 1..Len(sampled) : sampled[i].score > 60})

\* whether the rule that produces entries of type t fires on that list
RuleFires(t) ==
    CASE t = RuleOrder[1] -> Total("overlaps") > 0
      [] t = RuleOrder[2] -> Total("proximityRisks") > 0
      [] t = RuleOrder[3] -> Total("vehicleCount") > 8 * Len(sampled)
      [] t = RuleOrder[4] -> Total("personCount") > 5 * Len(sampled)
      [] t = RuleOrder[5] -> HighRiskCount > 3
      [] OTHER -> FALSE

IsRuleEntry(e) == \E k \in 1..5 : e.type = RuleOrder[k]
TypesOf(v) == [i \in 1..Len(v) |-> v[i].type]

\* c = Math.round(p / q), halves up
IsRounded(c, p, q) == 2 * q * c - q <= 2 * p /\ 2 * p < 2 * q * c + q

\* C15: generateViolations evaluates rules 1 to 5 independently and returns
\* exactly the entries whose rule fires (total overlaps > 0; total proximity
\* incidents > 0; mean vehicles > 8; mean persons > 5; more than 3 frames with
\* score > 60), each at most once and in the fixed order Vehicle
\* Near-Collisions, Pedestrian Proximity Risks, High Traffic Congestion,
\* Crowded Pedestrian Area, High-Risk Frame Clusters.
C15_RuleEntriesInOrder ==
    summary # Nil =>
        TypesOf(SelectSeq(summary.violations, IsRuleEntry))
            = SelectSeq(RuleOrder, RuleFires)

\* a list on which all five rules fire has been summarized
C15_Witness ==
    /\ summary # Nil
    /\ \A k \in 1..5 : RuleFires(RuleOrder[k])
    /\ Len(summary.violations) = 5

\* C16: every entry has the count and severity of its rule: Near-Collisions
\* count = total overlaps, high if > 5, medium if > 2, else low; Proximity
\* count = total proximity incidents, high; Congestion count = round(mean
\* vehicles), high if the mean > 15, else medium; Crowded count = round(mean
\* persons), high if the mean > 10, else medium; Clusters count = number of
\* frames with score > 60, high.
C16_CountsAndSeverities ==
    summary # Nil =>
        \A i \in 1..Len(summary.violations) :
            LET e == summary.violations[i]
                n == Len(sampled)
            IN  /\ e.type = RuleOrder[1] =>
                      /\ e.count = Total("overlaps")
                      /\ e.count > 5 => e.severity = "high"
                      /\ (e.count > 2 /\ e.count <= 5) => e.severity = "medium"
                      /\ e.count <= 2 => e.severity = "low"
                /\ e.type = RuleOrder[2] =>
                      /\ e.count = Total("proximityRisks")
                      /\ e.severity = "high"
                /\ e.type = RuleOrder[3] =>
                      /\ IsRounded(e.count, Total("vehicleCount"), n)
                      /\ e.severity =
                            (IF Total("vehicleCount") > 15 * n THEN "high" ELSE "medium")
                /\ e.type = RuleOrder[4] =>
                      /\ IsRounded(e.count, Total("personCount"), n)
                      /\ e.severity =
                            (IF Total("personCount") > 10 * n THEN "high" ELSE "medium")
                /\ e.type = RuleOrder[5] =>
                      /\ e.count = HighRiskCount
                      /\ e.severity = "high"

\* six overlaps, and 8.5 vehicles per frame, have been summarized
C16_Witness ==
    /\ summary # Nil
    /\ Total("overlaps") = 6
    /\ 2 * Total("vehicleCount") = 17 * Len(sampled)
    /\ summary.violations[1] = Violation("Vehicle Near-Collisions", 6, "high")
    /\ summary.violations[2] = Violation("High Traffic Congestion", 9, "medium")

\* C17: the fallback entry General Traffic Activity is returned if and only if
\* none of rules 1 to 5 fired and the aggregate score is > 10; it is then the
\* only entry, with count = round(aggregate score) and severity low.
C17_FallbackEntry ==
    summary # Nil =>
        LET v == summary.violations
            returned == \E i \in 1..Len(v) : v[i].type = FallbackType
            noneFired == \A k \in 1..5 : ~RuleFires(RuleOrder[k])
        IN  /\ returned <=> (noneFired /\ aggregateScore > 10)
            /\ returned => v = <<Violation(FallbackType, aggregateScore, "low")>>

\* a list on which no rule fires, with mean frame score 10.5, has been
\* summarized
C17_Witness ==
    /\ summary # Nil
    /\ 2 * SumSeq(ScoresOf(sampled)) = 21 * Len(sampled)
    /\ summary.violations = <<Violation(FallbackType, 11, "low")>>

\* C18: for a non-empty list with 0 vehicles and 0 persons in every frame and
\* an aggregate score of at most 10, generateViolations returns the empty list.
C18_QuietFootageHasNoViolations ==
    (/\ summary # Nil
     /\ Len(sampled) > 0
     /\ \A i \in 1..Len(sampled) :
           sampled[i].vehicleCount = 0 /\ sampled[i].personCount = 0
     /\ aggregateScore <= 10) =>
        summary.violations = <<>>

\* several frames without a vehicle or a person have been summarized
C18_Witness ==
    /\ summary # Nil
    /\ Len(sampled) > 1
    /\ \A i \in 1..Len(sampled) :
          sampled[i].vehicleCount = 0 /\ sampled[i].personCount = 0
    /\ aggregateScore <= 10
    /\ summary.violations = <<>>

----------------------------------------------------------------------------
(* Claims about iou, checked under SpecIou *)

HasArea(box) == box[1] < box[3] /\ box[2] < box[4]
IsFraction(f) == f[1] >= 0 /\ f[2] > 0

\* C19: for boxes with x1 <= x2 and y1 <= y2, iou(a, b) = iou(b, a);
\* iou(a, a) = 1 when a has positive width and height; iou(a, b) = 0 when the
\* boxes do not overlap (touching boxes and zero-area boxes included), without
\* forming the ratio, so iou never divides by zero and is never negative.
C19_IouKernel ==
    ratios # Nil =>
        LET common == Cardinality(Cells(rectA) \cap Cells(rectB))
            either == Cardinality(Cells(rectA) \cup Cells(rectB))
        IN  /\ IsFraction(ratios.ab) /\ IsFraction(ratios.ba) /\ IsFraction(ratios.aa)
            /\ ratios.ab[1] * ratios.ba[2] = ratios.ba[1] * ratios.ab[2]
            /\ HasArea(rectA) => ratios.aa[1] = ratios.aa[2]
            /\ common = 0 => ratios.ab = <<0, 1>>
            /\ common > 0 => ratios.ab[1] * either = common * ratios.ab[2]

\* two boxes with area that share an edge and nothing else have been compared
C19_Witness ==
    /\ ratios # Nil
    /\ HasArea(rectA) /\ HasArea(rectB)
    /\ rectA[3] = rectB[1]
    /\ rectA[2] = rectB[2] /\ rectA[4] = rectB[4]
    /\ ratios.ab = <<0, 1>>
    /\ ratios.aa[1] = ratios.aa[2]

----------------------------------------------------------------------------
(* Further claims about analyzeVideo, checked under Spec *)

\* an invocation of analyzeVideo that got past reading file.name
RunEntered == pc # "idle" /\ file # None

\* the retained indices of a run: the multiples of the stride below cap x stride
RetainedIndices ==
    {i \in 0..(maxFrames * frameSkip - 1) :
        IF frameSkip = 0 THEN i = 0 ELSE i % Abs(frameSkip) = 0}

\* the indices the detection source was called with, in call order
FetchedIndices ==
    LET fetches == SelectSeq(events, IsFetch)
    IN  [k \in 1..Len(fetches) |-> fetches[k].value]

\* what C23 says apart from the frame cap
SequentialFrames ==
    LET n == Len(frameAnalyses)
    IN  /\ \A k \in 1..n : frameAnalyses[k].frameIndex \in RetainedIndices
        /\ \A k \in 1..n :
              Cardinality({i \in RetainedIndices : i < frameAnalyses[k].frameIndex}) = k - 1
        /\ \A k \in 1..(n - 1) :
              frameAnalyses[k].frameIndex < frameAnalyses[k + 1].frameIndex
        /\ pc = "resolved" =>
              {frameAnalyses[k].frameIndex : k \in 1..n} = RetainedIndices
        /\ Len(FetchedIndices) \in {n, n + 1}
        /\ \A k \in 1..n : FetchedIndices[k] = frameAnalyses[k].frameIndex
        /\ Len(FetchedIndices) = n + 1 =>
              /\ pc = "rejected"
              /\ \A k \in 1..n : frameAnalyses[k].frameIndex < FetchedIndices[n + 1]

\* C22: generateViolations, and the divisions by the frame count, are reached
\* only when at least one frame analysis has been accumulated, for every frame
\* cap and stride.
C22_SummarizerNeverGetsZeroFrames ==
    /\ \A k \in 1..Len(summarized) : summarized[k] >= 1
    /\ Len(summarized) <= 1
    /\ pc = "resolved" =>
          /\ Len(frameAnalyses) = 0 => (summarized = <<>> /\ result = DegenerateRun)
          /\ Len(frameAnalyses) > 0 => summarized = <<Len(frameAnalyses)>>

\* a run with a positive cap that retained no frame (stride 0) has resolved
\* without calling the summarizer
C22_Witness ==
    /\ pc = "resolved"
    /\ maxFrames > 0
    /\ frameSkip = 0
    /\ frameAnalyses = <<>>
    /\ summarized = <<>>

C25_FrameStats ==
    (pc = "resolved" /\ Len(frameAnalyses) > 0) =>
        LET n == Len(frameAnalyses)
            st == result.frameStats
        IN  /\ st.processedFrames = n
            /\ st.processedFrames = Len(FetchedIndices)
            /\ (maxFrames > 0 /\ frameSkip > 0) => st.processedFrames = maxFrames
            /\ st.totalFrames = maxFrames * frameSkip
            /\ IsRounded(st.avgVehicles, 10 * SumField(frameAnalyses, "vehicleCount"), n)
            /\ IsRounded(st.avgPersons, 10 * SumField(frameAnalyses, "personCount"), n)
            /\ \A k \in 1..n : frameAnalyses[k].score <= st.maxScore
            /\ \A k \in 1..n : frameAnalyses[k].score >= st.minScore
            /\ \E k \in 1..n : frameAnalyses[k].score = st.maxScore
            /\ \E k \in 1..n : frameAnalyses[k].score = st.minScore

\* a run of the default length whose frames differ has resolved
C25_Witness ==
    /\ pc = "resolved"
    /\ caller = "app"
    /\ result.frameStats.processedFrames = DefaultMaxFrames
    /\ result.frameStats.totalFrames = DefaultMaxFrames * DefaultFrameSkip
    /\ result.frameStats.minScore < result.frameStats.maxScore

\* C30: in every result returned by analyzeVideo, frameStats.minScore <=
\* riskScore <= frameStats.maxScore and all three lie in 0..100; in the
\* degenerate result all three are 0.
C30_ScoreBetweenMinAndMax ==
    pc = "resolved" =>
        /\ result.frameStats.minScore <= result.riskScore
        /\ result.riskScore <= result.frameStats.maxScore
        /\ result.frameStats.minScore \in 0..100
        /\ result.riskScore \in 0..100
        /\ result.frameStats.maxScore \in 0..100
        /\ Len(frameAnalyses) = 0 =>
              /\ result.frameStats.minScore = 0
              /\ result.riskScore = 0
              /\ result.frameStats.maxScore = 0

\* a result whose riskScore lies strictly between the extremes, the lowest
\* score being the one of the last frame
C30_Witness ==
    /\ pc = "resolved"
    /\ Len(frameScores) = 2
    /\ frameScores[2] < frameScores[1]
    /\ result.frameStats.minScore < result.riskScore
    /\ result.riskScore < result.frameStats.maxScore

----------------------------------------------------------------------------
(* A further claim about computeFrameRisk, checked under SpecFrameRisk *)

ScoredLabels == {"car", "motorcycle", "bus", "truck", "bicycle", "person"}
HasScoredLabel(d) == d.className \in ScoredLabels
HasIgnoredLabel(d) == d.className \notin ScoredLabels

\* C24: detections whose label is neither a vehicle class nor person do not
\* count (the score and the four counts are those of the list without them)
\* but are retained: the detections field of the returned FrameAnalysis is the
\* input list, and the input list is not changed by the call.
C24_IgnoredLabelsRetained ==
    /\ [](frameAnalysis # Nil =>
            LET without == ComputeFrameRisk(SelectSeq(detections, HasScoredLabel),
                                            frameWidth, frameHeight)
            IN  /\ frameAnalysis.detections = detections
                /\ frameAnalysis.score = without.score
                /\ frameAnalysis.vehicleCount = without.vehicleCount
                /\ frameAnalysis.personCount = without.personCount
                /\ frameAnalysis.overlaps = without.overlaps
                /\ frameAnalysis.proximityRisks = without.proximityRisks)
    /\ [][detections' = detections]_vars

\* a list with a traffic light between two overlapping vehicles has been
\* evaluated
C24_Witness ==
    /\ frameAnalysis # Nil
    /\ Len(detections) = 3
    /\ IsVehicle(detections[1])
    /\ HasIgnoredLabel(detections[2])
    /\ IsVehicle(detections[3])
    /\ frameAnalysis.overlaps = 1
    /\ frameAnalysis.vehicleCount = 2
    /\ Len(frameAnalysis.detections) = 3

----------------------------------------------------------------------------
(* Claims about the runs handleAnalyze starts, checked under Spec and SpecLive *)

\* C26: at most one run is in flight: while isAnalyzing is true the start
\* control is disabled, so no second call of analyzeVideo begins before the
\* first has resolved or rejected; and handleAnalyze starts nothing without a
\* video file and a selected location.
C26_OneRunInFlight ==
    /\ [](/\ inFlight \in {0, 1}
          /\ inFlight = 1 <=> isAnalyzing
          /\ isAnalyzing => (~StartEnabled /\ caller = "app" /\ pc # "idle"))
    /\ [][inFlight' > inFlight =>
            /\ inFlight = 0
            /\ ~isAnalyzing
            /\ videoFile # None
            /\ selectedLocation # Nil]_vars
    /\ [][(videoFile = None \/ selectedLocation = Nil) =>
            (inFlight' <= inFlight /\ (pc = "idle" => caller' # "app"))]_vars

\* a run is in progress while a video and a location are still selected
C26_Witness ==
    /\ isAnalyzing
    /\ inFlight = 1
    /\ videoFile # None
    /\ selectedLocation # Nil
    /\ pc = "await"
    /\ Len(frameAnalyses) > 0

\* C27: every started run eventually leaves the running state: analyzeVideo
\* terminates for every cap and stride, and on every exit path of
\* handleAnalyze isAnalyzing ends false and the progress ends reset to 0.
C27_RunEventuallyEnds ==
    /\ (pc = "await") ~> Terminal
    /\ isAnalyzing ~> (~isAnalyzing /\ progress = 0)
    /\ [][(caller = "app" /\ Terminal /\ pc' = "idle") =>
            (~isAnalyzing' /\ progress' = 0 /\ inFlight' = 0)]_vars

\* a run the app started has been handled as not street footage
C27_Witness ==
    /\ pc = "idle"
    /\ ~isAnalyzing
    /\ progress = 0
    /\ errorMessage = NotStreetMessage

\* C28: the RiskAnalysis appended by a run carries the location (lat, lon,
\* location name) and the video name selected when the run was started,
\* whatever was changed in the sidebar while the run was in progress.
C28_RecordCarriesStartInputs ==
    [][(ResolvedRunHandled /\ ~JudgedInvalid(result)) =>
          /\ Len(analyses') = Len(analyses) + 1
          /\ analyses'[Len(analyses')].lat = closure.selectedLocation.lat
          /\ analyses'[Len(analyses')].lon = closure.selectedLocation.lon
          /\ analyses'[Len(analyses')].locationName =
                (IF closure.locationName # "" THEN closure.locationName
                 ELSE closure.selectedLocation.displayName[1])
          /\ analyses'[Len(analyses')].videoName = closure.videoFile]_vars

----------------------------------------------------------------------------
(* Claims about the location search, checked under SpecSidebar *)

\* C21: getLiveLocation never rejects and, when the reverse lookup fails or
\* returns no display name, resolves with the coordinates and the
\* coordinate string as display name; searchLocations resolves with the empty
\* list and geocodeLocation with null when the request fails.  No handler of
\* the sidebar is left waiting by a failure.
C21_LocationFailuresResolve ==
    /\ (liveLocation # Nil /\ liveLocation.state # "pending") =>
          /\ liveLocation.state = "fulfilled"
          /\ ~isLocating
          /\ (liveLocation.geo = "located"
                /\ liveLocation.lookup \in {"unnamed", "failed"}) =>
                /\ liveLocation.value.lat = liveLocation.lat
                /\ liveLocation.value.lon = liveLocation.lon
                /\ liveLocation.value.displayName =
                      <<ToString(liveLocation.lat) \o ".0000",
                        " " \o ToString(liveLocation.lon) \o ".0000">>
    /\ searched # Nil =>
          /\ searched.settled.state = "fulfilled"
          /\ searched.outcome = "failed" => searched.settled.value = <<>>
    /\ geocoded # Nil =>
          /\ geocoded.settled.state = "fulfilled"
          /\ geocoded.outcome = "failed" => geocoded.settled.value = Nil

\* the reverse lookup of a located position, a search and a geocoding
\* request have all failed, and the position has been selected under its
\* coordinate string
C21_Witness ==
    /\ liveLocation # Nil
    /\ liveLocation.state = "fulfilled"
    /\ liveLocation.geo = "located"
    /\ liveLocation.lookup = "failed"
    /\ selectedLocation = liveLocation.value
    /\ locationName = "-33.0000"
    /\ searched # Nil
    /\ searched.outcome = "failed"
    /\ Len(searched.query) >= 3
    /\ geocoded # Nil
    /\ geocoded.outcome = "failed"
    /\ Len(geocoded.address) >= 2

\* C29: the suggestions shown always belong to the query typed last: a
\* response of searchLocations that arrives after a later query was typed,
\* after the query was shortened below 3 characters or after a location was
\* selected neither replaces the results nor reopens the dropdown.
C29_SuggestionsForLatestQuery ==
    (showResults /\ searchResults # <<>>) =>
        /\ selectedLocation = Nil
        /\ Len(locationName) >= 3
        /\ searchResults = MapItems(ServiceHits(locationName))

====
